---- MODULE Spec2Model ----
(***************************************************************************)
(* Request pipeline of the Topapi REST API: the Express middleware chain   *)
(* (authenticate / optionalAuth, requireAdmin, express-validator chains),  *)
(* the route handlers and the global error handler, run against the        *)
(* external identity service (accounts) and record store (profiles and the *)
(* admin-managed tables).  One request is in flight at a time; every       *)
(* external call is logged in `calls` with its outcome.                    *)
(***************************************************************************)
EXTENDS Integers, Sequences, FiniteSets, TLC

\* ------------------------------------------------------------------ bounds
\* Number of requests the server handles in one behaviour.
MaxRequests == 1

\* --------------------------------------------------------------- constants
Undefined == "undefined"
NoId == -1
MalformedId == 0

\* Account ids (UUIDs).  The accounts in ExistingIds exist initially; FreshId
\* is the id the identity service hands out to the account created by signup.
ExistingIds == {1, 2}
FreshId == 3
Ids == ExistingIds \cup {FreshId}
\* Access tokens: token i was issued to account i; token 0 is a string the
\* identity service never issued.
Tokens == {0} \cup Ids
\* Record ids of the admin-managed tables and of the activity log.
RecordIds == {1}

RoleValues == {"admin", "Admin", "ADMIN", "staff", "Staff", "superuser"}
ProfileRoleEnum == {"admin", "staff"}
LanguageEnum == {"en", "es"}

\* String.prototype.toLowerCase on the role strings of the model.
ToLowerCase(s) ==
  CASE s = "Admin" -> "admin"
    [] s = "ADMIN" -> "admin"
    [] s = "Staff" -> "staff"
    [] OTHER -> s

\* x || d, for a string-valued x (undefined and "" are falsy).
OrDefault(x, d) == IF x = Undefined \/ x = "" THEN d ELSE x

\* validator.js isUUID on a path or body value.
IsUUID(x) == x \in Ids

\* String.prototype.trim on the text values of the model.
Trim(s) == IF s = "  " THEN "" ELSE s

\* validator.js isInt({ min: 0 }) on the numerals of the model.
ParseInt(s) ==
  CASE s = "-1" -> -1
    [] s = "0" -> 0
    [] s = "7" -> 7
    [] OTHER -> -1000
IsNumeral(s) == s \in {"-1", "0", "7"}
IsIntMin0(s) == IsNumeral(s) /\ ParseInt(s) >= 0

\* validator.js isEmail / isLength({ min: 6 }) / notEmpty on the abstract
\* values of the model.
IsEmail(s) == s \in {"new@x.io", "old@x.io"}
StrLen(s) ==
  CASE s = Undefined -> 0
    [] s = "" -> 0
    [] s = "abc" -> 3
    [] s = "secret1" -> 7
    [] s = "secret2" -> 7
    [] OTHER -> 1
IsLengthMin6(s) == StrLen(s) >= 6
NotEmpty(s) == s # Undefined /\ s # ""

\* ------------------------------------------------------------------ routes
RouteTable ==
  [ r \in { "POST /api/auth/signup", "POST /api/auth/login", "POST /api/auth/logout",
            "POST /api/auth/refresh", "GET /api/auth/me", "POST /api/auth/reset-password",
            "POST /api/auth/update-password", "POST /api/auth/admin/reset-password/:userId",
            "GET /api/users/:id", "PATCH /api/users/:id", "DELETE /api/users/:id",
            "GET /api/profiles/:user_id", "POST /api/profiles",
            "PATCH /api/profiles/:user_id", "DELETE /api/profiles/:user_id",
            "GET /api/inventory/:id", "POST /api/inventory",
            "PATCH /api/inventory/:id", "DELETE /api/inventory/:id",
            "GET /api/categories/:id", "POST /api/categories",
            "PATCH /api/categories/:id", "DELETE /api/categories/:id",
            "GET /api/departments/:id", "POST /api/departments",
            "PATCH /api/departments/:id", "DELETE /api/departments/:id",
            "GET /api/activity-log/:id", "POST /api/activity-log",
            "DELETE /api/activity-log/:id",
            "GET /api/users", "GET /api/profiles", "GET /api/inventory",
            "GET /api/categories", "GET /api/departments", "GET /api/activity-log",
            "GET /api/health", "GET /api/health/db", "GET /api/unknown" } |->
    CASE r = "POST /api/auth/signup" ->
           [auth |-> "authenticate", admin |-> TRUE, kind |-> "signup", table |-> "profiles"]
      [] r = "POST /api/auth/login" ->
           [auth |-> "none", admin |-> FALSE, kind |-> "login", table |-> "none"]
      [] r = "POST /api/auth/logout" ->
           [auth |-> "authenticate", admin |-> FALSE, kind |-> "logout", table |-> "none"]
      [] r = "POST /api/auth/refresh" ->
           [auth |-> "none", admin |-> FALSE, kind |-> "refresh", table |-> "none"]
      [] r = "GET /api/auth/me" ->
           [auth |-> "authenticate", admin |-> FALSE, kind |-> "me", table |-> "none"]
      [] r = "POST /api/auth/reset-password" ->
           [auth |-> "none", admin |-> FALSE, kind |-> "resetPassword", table |-> "none"]
      [] r = "POST /api/auth/update-password" ->
           [auth |-> "authenticate", admin |-> FALSE, kind |-> "updatePassword", table |-> "none"]
      [] r = "POST /api/auth/admin/reset-password/:userId" ->
           [auth |-> "authenticate", admin |-> TRUE, kind |-> "adminResetPassword", table |-> "none"]
      [] r = "GET /api/users/:id" ->
           [auth |-> "authenticate", admin |-> FALSE, kind |-> "getById", table |-> "profiles"]
      [] r = "PATCH /api/users/:id" ->
           [auth |-> "authenticate", admin |-> FALSE, kind |-> "usersPatch", table |-> "profiles"]
      [] r = "DELETE /api/users/:id" ->
           [auth |-> "authenticate", admin |-> FALSE, kind |-> "usersDelete", table |-> "profiles"]
      [] r = "GET /api/profiles/:user_id" ->
           [auth |-> "optionalAuth", admin |-> FALSE, kind |-> "getById", table |-> "profiles"]
      [] r = "POST /api/profiles" ->
           [auth |-> "authenticate", admin |-> FALSE, kind |-> "profilesCreate", table |-> "profiles"]
      [] r = "PATCH /api/profiles/:user_id" ->
           [auth |-> "authenticate", admin |-> FALSE, kind |-> "profilesPatch", table |-> "profiles"]
      [] r = "DELETE /api/profiles/:user_id" ->
           [auth |-> "authenticate", admin |-> FALSE, kind |-> "profilesDelete", table |-> "profiles"]
      [] r = "GET /api/inventory/:id" ->
           [auth |-> "authenticate", admin |-> FALSE, kind |-> "getById", table |-> "inventory_items"]
      [] r = "POST /api/inventory" ->
           [auth |-> "authenticate", admin |-> TRUE, kind |-> "create", table |-> "inventory_items"]
      [] r = "PATCH /api/inventory/:id" ->
           [auth |-> "authenticate", admin |-> TRUE, kind |-> "update", table |-> "inventory_items"]
      [] r = "DELETE /api/inventory/:id" ->
           [auth |-> "authenticate", admin |-> TRUE, kind |-> "delete", table |-> "inventory_items"]
      [] r = "GET /api/categories/:id" ->
           [auth |-> "authenticate", admin |-> FALSE, kind |-> "getById", table |-> "categories"]
      [] r = "POST /api/categories" ->
           [auth |-> "authenticate", admin |-> TRUE, kind |-> "create", table |-> "categories"]
      [] r = "PATCH /api/categories/:id" ->
           [auth |-> "authenticate", admin |-> TRUE, kind |-> "update", table |-> "categories"]
      [] r = "DELETE /api/categories/:id" ->
           [auth |-> "authenticate", admin |-> TRUE, kind |-> "delete", table |-> "categories"]
      [] r = "GET /api/departments/:id" ->
           [auth |-> "authenticate", admin |-> FALSE, kind |-> "getById", table |-> "departments"]
      [] r = "POST /api/departments" ->
           [auth |-> "authenticate", admin |-> TRUE, kind |-> "create", table |-> "departments"]
      [] r = "PATCH /api/departments/:id" ->
           [auth |-> "authenticate", admin |-> TRUE, kind |-> "update", table |-> "departments"]
      [] r = "DELETE /api/departments/:id" ->
           [auth |-> "authenticate", admin |-> TRUE, kind |-> "delete", table |-> "departments"]
      [] r = "GET /api/activity-log/:id" ->
           [auth |-> "authenticate", admin |-> FALSE, kind |-> "getById", table |-> "activity_log"]
      [] r = "POST /api/activity-log" ->
           [auth |-> "authenticate", admin |-> FALSE, kind |-> "activityCreate", table |-> "activity_log"]
      [] r = "DELETE /api/activity-log/:id" ->
           [auth |-> "authenticate", admin |-> TRUE, kind |-> "delete", table |-> "activity_log"]
      [] r = "GET /api/users" ->
           [auth |-> "authenticate", admin |-> FALSE, kind |-> "list", table |-> "profiles"]
      [] r = "GET /api/profiles" ->
           [auth |-> "optionalAuth", admin |-> FALSE, kind |-> "list", table |-> "profiles"]
      [] r = "GET /api/inventory" ->
           [auth |-> "authenticate", admin |-> FALSE, kind |-> "list", table |-> "inventory_items"]
      [] r = "GET /api/categories" ->
           [auth |-> "authenticate", admin |-> FALSE, kind |-> "list", table |-> "categories"]
      [] r = "GET /api/departments" ->
           [auth |-> "authenticate", admin |-> FALSE, kind |-> "list", table |-> "departments"]
      [] r = "GET /api/activity-log" ->
           [auth |-> "authenticate", admin |-> FALSE, kind |-> "list", table |-> "activity_log"]
      [] r = "GET /api/health" ->
           [auth |-> "none", admin |-> FALSE, kind |-> "health", table |-> "none"]
      [] r = "GET /api/health/db" ->
           [auth |-> "none", admin |-> FALSE, kind |-> "healthDb", table |-> "_health_check"]
      [] r = "GET /api/unknown" ->
           [auth |-> "none", admin |-> FALSE, kind |-> "unknown", table |-> "none"] ]

Routes == DOMAIN RouteTable
ListRoutes == { r \in Routes : RouteTable[r].kind = "list" }
AdminTables == {"inventory_items", "categories", "departments"}

\* ---------------------------------------------------------------- requests
NoHeader == [present |-> FALSE, prefix |-> Undefined, rest |-> 0]
\* An Authorization header is its first seven characters and the rest.
Headers ==
  {NoHeader} \cup
  { [present |-> TRUE, prefix |-> p, rest |-> t] :
      p \in {"Bearer "}, t \in Tokens } \cup
  { [present |-> TRUE, prefix |-> "Basic u", rest |-> 1] }

BaseBody ==
  [ email |-> Undefined, password |-> Undefined, refresh_token |-> Undefined,
    role |-> Undefined, language |-> Undefined, user_id |-> NoId,
    name |-> Undefined, department |-> Undefined, category |-> Undefined,
    unit |-> Undefined, quantity |-> Undefined, min_quantity |-> Undefined,
    action |-> Undefined, item_name |-> Undefined, item_id |-> NoId ]

PathIds == Ids \cup {MalformedId}

\* The request bodies the clients of the model send, per route: a valid body
\* and the bodies that differ from it in the fields the route reads.
ValidItem ==
  [BaseBody EXCEPT !.name = "widget", !.department = "kitchen", !.category = "dry",
                   !.unit = "kg", !.quantity = "7"]
ValidEntry == [BaseBody EXCEPT !.action = "created", !.item_name = "widget"]

Bodies(route) ==
  LET kind == RouteTable[route].kind
      table == RouteTable[route].table
  IN CASE kind = "signup" ->
            { [BaseBody EXCEPT !.email = "new@x.io", !.password = "secret1",
                               !.role = m[1], !.language = m[2]] :
                m \in { <<Undefined, Undefined>>, <<"Admin", Undefined>>,
                        <<"superuser", "fr">> } } \cup
            { [BaseBody EXCEPT !.email = "bad", !.password = "secret1"],
              [BaseBody EXCEPT !.email = "new@x.io", !.password = "abc"] }
       [] kind = "login" ->
            { [BaseBody EXCEPT !.email = e, !.password = p] :
                e \in {"old@x.io", "bad"}, p \in {"secret1", ""} }
       [] kind = "refresh" ->
            { [BaseBody EXCEPT !.refresh_token = t] : t \in {"rt", ""} }
       [] kind = "resetPassword" ->
            { [BaseBody EXCEPT !.email = e] : e \in {"old@x.io", "bad"} }
       [] kind \in {"updatePassword", "adminResetPassword"} ->
            { [BaseBody EXCEPT !.password = p] : p \in {"secret2", "abc"} }
       [] kind = "usersPatch" ->
            { [BaseBody EXCEPT !.role = m[1], !.language = m[2]] :
                m \in { <<Undefined, Undefined>>, <<"admin", "es">>, <<"Admin", Undefined>>,
                        <<"superuser", Undefined>>, <<Undefined, "fr">> } }
       [] kind = "profilesPatch" ->
            { [BaseBody EXCEPT !.role = m[1], !.language = m[2]] :
                m \in { <<Undefined, Undefined>>, <<"Admin", "es">>,
                        <<"superuser", Undefined>>, <<Undefined, "fr">> } }
       [] kind = "profilesCreate" ->
            { [BaseBody EXCEPT !.user_id = u, !.role = r] :
                u \in PathIds, r \in {Undefined, "Admin"} } \cup
            { [BaseBody EXCEPT !.user_id = 1, !.role = "superuser"],
              [BaseBody EXCEPT !.user_id = 1, !.language = "fr"] }
       [] kind = "create" /\ table = "inventory_items" ->
            { ValidItem,
              [ValidItem EXCEPT !.name = "  "],
              [ValidItem EXCEPT !.department = ""],
              [ValidItem EXCEPT !.quantity = "-1"],
              [ValidItem EXCEPT !.quantity = Undefined],
              [ValidItem EXCEPT !.min_quantity = "-1"] }
       [] kind = "update" /\ table = "inventory_items" ->
            { BaseBody,
              [BaseBody EXCEPT !.name = "widget", !.quantity = "7"],
              [BaseBody EXCEPT !.name = ""],
              [BaseBody EXCEPT !.quantity = "-1"] }
       [] kind = "create" /\ table = "categories" ->
            { [BaseBody EXCEPT !.name = "widget", !.department = "kitchen"],
              [BaseBody EXCEPT !.name = "  ", !.department = "kitchen"],
              [BaseBody EXCEPT !.name = "widget"] }
       [] kind = "update" /\ table = "categories" ->
            { BaseBody,
              [BaseBody EXCEPT !.name = "widget"],
              [BaseBody EXCEPT !.name = ""],
              [BaseBody EXCEPT !.department = "  "] }
       [] kind = "create" /\ table = "departments" ->
            { [BaseBody EXCEPT !.name = n] : n \in {"widget", "  ", Undefined} }
       [] kind = "update" /\ table = "departments" ->
            { [BaseBody EXCEPT !.name = n] : n \in {Undefined, "widget", ""} }
       [] kind = "activityCreate" ->
            { [ValidEntry EXCEPT !.user_id = u] : u \in {NoId, MalformedId, 1, 2} } \cup
            { [ValidEntry EXCEPT !.action = "bogus"],
              [ValidEntry EXCEPT !.item_name = ""],
              [ValidEntry EXCEPT !.item_id = MalformedId],
              [ValidEntry EXCEPT !.item_id = 1] }
       [] OTHER -> {BaseBody}

\* The path parameter (:id, :user_id, :userId) the clients send, per route.
PathParams(route) ==
  LET kind == RouteTable[route].kind
      table == RouteTable[route].table
  IN CASE kind \in {"usersPatch", "usersDelete", "profilesPatch", "profilesDelete",
                    "adminResetPassword"} -> PathIds
       [] kind = "getById" /\ table = "profiles" -> PathIds
       [] kind = "getById" -> RecordIds \cup {MalformedId, FreshId}
       [] kind \in {"update", "delete"} -> RecordIds \cup {MalformedId}
       [] OTHER -> {NoId}

\* ----------------------------------------------------- validation chains
\* body(f).optional(): the chain is skipped when the field is undefined.
Optional(v, ok) == v = Undefined \/ ok
OptionalId(v, ok) == v = NoId \/ ok

\* The names of the fields whose express-validator chain records an error.
Violations(route, id, b) ==
  LET kind == RouteTable[route].kind
      table == RouteTable[route].table
      idRule == IF IsUUID(id) THEN {} ELSE {"id"}
  IN CASE kind = "signup" ->
            (IF IsEmail(b.email) THEN {} ELSE {"email"}) \cup
            (IF IsLengthMin6(b.password) THEN {} ELSE {"password"})
       [] kind = "login" ->
            (IF IsEmail(b.email) THEN {} ELSE {"email"}) \cup
            (IF NotEmpty(b.password) THEN {} ELSE {"password"})
       [] kind = "refresh" ->
            IF NotEmpty(b.refresh_token) THEN {} ELSE {"refresh_token"}
       [] kind = "resetPassword" ->
            IF IsEmail(b.email) THEN {} ELSE {"email"}
       [] kind = "updatePassword" ->
            IF IsLengthMin6(b.password) THEN {} ELSE {"password"}
       [] kind = "adminResetPassword" ->
            idRule \cup (IF IsLengthMin6(b.password) THEN {} ELSE {"password"})
       [] kind \in {"getById", "delete", "usersPatch", "usersDelete", "profilesDelete"} ->
            idRule
       [] kind = "profilesCreate" ->
            (IF IsUUID(b.user_id) THEN {} ELSE {"user_id"}) \cup
            (IF Optional(b.role, b.role \in {"Admin", "admin", "Staff", "staff"})
               THEN {} ELSE {"role"}) \cup
            (IF Optional(b.language, b.language \in {"en", "es"}) THEN {} ELSE {"language"})
       [] kind = "profilesPatch" ->
            idRule \cup
            (IF Optional(b.role, b.role \in {"Admin", "admin", "Staff", "staff"})
               THEN {} ELSE {"role"}) \cup
            (IF Optional(b.language, b.language \in {"en", "es"}) THEN {} ELSE {"language"})
       [] kind = "create" /\ table = "inventory_items" ->
            (IF NotEmpty(Trim(b.name)) THEN {} ELSE {"name"}) \cup
            (IF NotEmpty(Trim(b.department)) THEN {} ELSE {"department"}) \cup
            (IF NotEmpty(Trim(b.category)) THEN {} ELSE {"category"}) \cup
            (IF IsIntMin0(b.quantity) THEN {} ELSE {"quantity"}) \cup
            (IF Optional(b.min_quantity, IsIntMin0(b.min_quantity))
               THEN {} ELSE {"min_quantity"}) \cup
            (IF NotEmpty(Trim(b.unit)) THEN {} ELSE {"unit"})
       [] kind = "update" /\ table = "inventory_items" ->
            idRule \cup
            (IF Optional(b.name, NotEmpty(Trim(b.name))) THEN {} ELSE {"name"}) \cup
            (IF Optional(b.department, NotEmpty(Trim(b.department)))
               THEN {} ELSE {"department"}) \cup
            (IF Optional(b.category, NotEmpty(Trim(b.category))) THEN {} ELSE {"category"}) \cup
            (IF Optional(b.quantity, IsIntMin0(b.quantity)) THEN {} ELSE {"quantity"}) \cup
            (IF Optional(b.min_quantity, IsIntMin0(b.min_quantity))
               THEN {} ELSE {"min_quantity"}) \cup
            (IF Optional(b.unit, NotEmpty(Trim(b.unit))) THEN {} ELSE {"unit"})
       [] kind = "create" /\ table = "categories" ->
            (IF NotEmpty(Trim(b.department)) THEN {} ELSE {"department"}) \cup
            (IF NotEmpty(Trim(b.name)) THEN {} ELSE {"name"})
       [] kind = "update" /\ table = "categories" ->
            idRule \cup
            (IF Optional(b.department, NotEmpty(Trim(b.department)))
               THEN {} ELSE {"department"}) \cup
            (IF Optional(b.name, NotEmpty(Trim(b.name))) THEN {} ELSE {"name"})
       [] kind = "create" /\ table = "departments" ->
            IF NotEmpty(Trim(b.name)) THEN {} ELSE {"name"}
       [] kind = "update" /\ table = "departments" ->
            idRule \cup
            (IF Optional(b.name, NotEmpty(Trim(b.name))) THEN {} ELSE {"name"})
       [] kind = "activityCreate" ->
            (IF b.action \in {"created", "updated", "deleted"} THEN {} ELSE {"action"}) \cup
            (IF NotEmpty(Trim(b.item_name)) THEN {} ELSE {"item_name"}) \cup
            (IF OptionalId(b.user_id, IsUUID(b.user_id)) THEN {} ELSE {"user_id"}) \cup
            (IF OptionalId(b.item_id, IsUUID(b.item_id)) THEN {} ELSE {"item_id"})
       [] OTHER -> {}

\* Routes that declare at least one validation chain.
HasValidators(route) ==
  RouteTable[route].kind \notin {"logout", "me", "list", "health", "healthDb", "unknown"}

\* ------------------------------------------------------------------- state
VARIABLES
  accounts,         \* identity service: id -> account (user_metadata, password)
  profiles,         \* record store, table profiles: user_id -> row
  adminConfigured,  \* supabaseAdmin is a client (SUPABASE_SERVICE_ROLE_KEY set)
  clientSession,    \* account whose session the shared supabase client holds
  nreq,             \* requests accepted so far
  pc,               \* position of the request in flight in the middleware chain
  req,              \* the request in flight (req.user, req.token, req.body ...)
  err,              \* the error handed to next(err)
  res,              \* the response sent
  calls,            \* external calls issued for the request in flight
  handlerRan,       \* the route handler was entered
  records,          \* record store: table -> id -> row, for the tables other than profiles
  limiter           \* express-rate-limit memory store and the requests it let through

vars == <<accounts, profiles, adminConfigured, clientSession, nreq, pc, req, err,
          res, calls, handlerRan, records, limiter>>

NoSession == 0
NoPrincipal == [present |-> FALSE, id |-> NoId, hasMeta |-> FALSE, role |-> Undefined]
NoErr == [raised |-> FALSE, statusCode |-> 0, message |-> Undefined]
\* pagination of a response body that has none
NoPagination == [page |-> 0, limit |-> 0, total |-> 0, totalPages |-> 0]
\* shape is the layout of the JSON body: "success" { success: true, ... },
\* "failure" { success: false, error: { message }, timestamp }, or the name of
\* another layout; rows is the length of its data array.
NoRes ==
  [sent |-> FALSE, status |-> 0, success |-> FALSE, message |-> Undefined,
   shape |-> "none", rows |-> 0, pagination |-> NoPagination]
NoAccount ==
  [exists |-> FALSE, hasMeta |-> FALSE, role |-> Undefined, language |-> Undefined,
   password |-> Undefined]
NoProfile == [exists |-> FALSE, role |-> Undefined, language |-> Undefined, updated_at |-> 0]
\* req.query of a request without query string
NoQuery == [page |-> Undefined, limit |-> Undefined]
NoRequest ==
  [route |-> "none", hdr |-> NoHeader, id |-> NoId, body |-> BaseBody,
   query |-> NoQuery, user |-> NoPrincipal, token |-> NoId, verrors |-> {}]

\* The tables other than profiles, and their rows.  A row keeps the columns
\* the model follows: name (item_name in activity_log), quantity
\* (inventory_items), user_id (created_by, or user_id in activity_log) and
\* updated_at (inventory_items).
StoreTables == AdminTables \cup {"activity_log"}
RowIds == 1..(MaxRequests + 1)
NoRow ==
  [exists |-> FALSE, name |-> Undefined, quantity |-> Undefined, user_id |-> NoId,
   updated_at |-> 0]
\* The row every table holds under the id in RecordIds when the server starts.
InitialRow(table) ==
  [exists |-> TRUE, name |-> "gadget",
   quantity |-> IF table = "inventory_items" THEN "0" ELSE Undefined,
   user_id |-> 2, updated_at |-> 0]
RowExists(table, id) == id \in RowIds /\ records[table][id].exists
\* The id the store gives to the row a request inserts.
NewRecordId == nreq + 1

\* ------------------------------------------------------------ front gate
\* rateLimit({ windowMs, max: 100 }) mounted on /api/
RateLimitMax == 100
\* Client addresses (req.ip) and Origin headers of the model.
Addresses == {"10.0.0.1", "10.0.0.2"}
Origins == {Undefined, "http://localhost:3000", "https://dev.github.dev", "https://evil.example"}
\* corsOptions.origin: no origin, a listed origin or a github.dev subdomain
OriginAllowed(origin) ==
  \/ origin = Undefined
  \/ origin \in {"http://localhost:3000"}
  \/ origin = "https://dev.github.dev"
\* The memory store of the limiter in the current window, per address: hits
\* counted, requests passed on with next(), and those of them whose route
\* has not run yet.
NoHits ==
  [hits |-> [a \in Addresses |-> 0], passed |-> [a \in Addresses |-> 0],
   waiting |-> [a \in Addresses |-> 0]]

\* new Date(): requests are stamped with their ordinal.
Now == nreq

\* new ApiError(statusCode, message)
ApiError(statusCode, message) ==
  [raised |-> TRUE, statusCode |-> statusCode, message |-> message]
\* An exception that is not an ApiError (TypeError ...): it carries no statusCode.
PlainError(message) == [raised |-> TRUE, statusCode |-> 0, message |-> message]

\* One external call: svc is "identity" or "store".
Call(svc, op, table, target, role, language, result) ==
  [svc |-> svc, op |-> op, table |-> table, target |-> target, role |-> role,
   language |-> language, result |-> result]

StoreCalls == { i \in 1..Len(calls) : calls[i].svc = "store" }
\* Calls that change an account in the identity service.
IdentityMutations ==
  { i \in 1..Len(calls) :
      calls[i].svc = "identity" /\
      calls[i].op \in {"signUp", "deleteUser", "updateUserById", "updateUser"} }

\* The roles the accounts carry in user_metadata when the server starts.
InitialMetadata ==
  { [ i \in ExistingIds |-> IF i = 1 THEN m[1] ELSE m[2] ] :
      m \in { <<"admin", "staff">>, <<"Admin", Undefined>> } }

Init ==
  /\ \E m \in InitialMetadata :
       /\ accounts =
            [ i \in Ids |->
                IF i \in ExistingIds
                  THEN [exists |-> TRUE, hasMeta |-> m[i] # Undefined, role |-> m[i],
                        language |-> IF m[i] # Undefined THEN "en" ELSE Undefined,
                        password |-> "secret1"]
                  ELSE NoAccount ]
       /\ profiles =
            [ i \in Ids |->
                IF i \in ExistingIds
                  THEN [exists |-> TRUE,
                        role |-> ToLowerCase(OrDefault(m[i], "staff")),
                        language |-> "en", updated_at |-> 0]
                  ELSE NoProfile ]
  /\ records =
       [ t \in StoreTables |->
           [ i \in RowIds |-> IF i \in RecordIds THEN InitialRow(t) ELSE NoRow ] ]
  /\ limiter = NoHits
  /\ adminConfigured \in BOOLEAN
  /\ clientSession = NoSession
  /\ nreq = 0
  /\ pc = "idle"
  /\ req = NoRequest
  /\ err = NoErr
  /\ res = NoRes
  /\ calls = <<>>
  /\ handlerRan = FALSE

\* ------------------------------------------------------- middleware chain
\* The stage that follows `stage` in the route's middleware list.
StageAfter(route, stage) ==
  LET r == RouteTable[route]
  IN IF stage = "start" /\ r.auth # "none" THEN r.auth
     ELSE IF stage \in {"start", "authenticate", "optionalAuth"} /\ r.admin
       THEN "requireAdmin"
     ELSE IF stage # "validate" /\ HasValidators(route) THEN "validate"
     ELSE "handler"

\* A client sends a request.
NewRequest(route, hdr, id, body) ==
  /\ pc = "idle"
  /\ nreq < MaxRequests
  /\ nreq' = nreq + 1
  /\ req' = [route |-> route, hdr |-> hdr, id |-> id, body |-> body,
             query |-> NoQuery, user |-> NoPrincipal, token |-> NoId, verrors |-> {}]
  /\ pc' = StageAfter(route, "start")
  /\ err' = NoErr
  /\ res' = NoRes
  /\ calls' = <<>>
  /\ handlerRan' = FALSE
  /\ UNCHANGED <<limiter, records, accounts, profiles, adminConfigured, clientSession>>

\* Variant of HasBearer that does not look at the scheme.
HasBearerAnyScheme(h) == h.present

\* authHeader && authHeader.startsWith('Bearer ')
HasBearer(h) == h.present /\ h.prefix = "Bearer "

\* authHeader.substring(7)
BearerToken(h) == h.rest

\* The outcomes supabase.auth.getUser(token) can have: "user" (data.user set,
\* no error), "error" (error set), "nouser" (neither), "throw" (the call or
\* the destructuring of its result throws).
GetUserOutcomes(token) ==
  IF token \in Ids /\ accounts[token].exists
    THEN {"user", "error", "throw"}
    ELSE {"error", "nouser", "throw"}

\* The user object the identity service resolves a token to.
ResolvedUser(token) ==
  IF token \in Ids
    THEN [present |-> TRUE, id |-> token, hasMeta |-> accounts[token].hasMeta,
          role |-> accounts[token].role]
    ELSE [present |-> TRUE, id |-> token, hasMeta |-> FALSE, role |-> Undefined]

GetUserCall(token, outcome) ==
  Call("identity", "getUser", "none", token, Undefined, Undefined, outcome)

\* error || !user
AuthRejected(outcome) == outcome # "user"

Authenticate ==
  /\ pc = "authenticate"
  /\ IF ~HasBearer(req.hdr)
       THEN /\ err' = ApiError(401, "No token provided")
            /\ pc' = "error"
            /\ UNCHANGED <<req, calls>>
       ELSE \E outcome \in GetUserOutcomes(BearerToken(req.hdr)) :
              /\ calls' = Append(calls, GetUserCall(BearerToken(req.hdr), outcome))
              /\ IF outcome = "throw"
                   THEN /\ err' = ApiError(401, "Authentication failed")
                        /\ pc' = "error"
                        /\ req' = req
                   ELSE IF AuthRejected(outcome)
                     THEN /\ err' = ApiError(401, "Invalid or expired token")
                          /\ pc' = "error"
                          /\ req' = req
                     ELSE /\ req' = [req EXCEPT !.user = ResolvedUser(BearerToken(req.hdr)),
                                                !.token = BearerToken(req.hdr)]
                          /\ pc' = StageAfter(req.route, "authenticate")
                          /\ err' = err
  /\ UNCHANGED <<limiter, records, accounts, profiles, adminConfigured, clientSession, nreq, res, handlerRan>>

\* Variant of OptionalAuthAccepts that ignores the error of the oracle.
OptionalAuthAcceptsOnError(outcome) == outcome \in {"user", "error"}

\* !error && user
OptionalAuthAccepts(outcome) == outcome = "user"

OptionalAuth ==
  /\ pc = "optionalAuth"
  /\ IF HasBearer(req.hdr)
       THEN \E outcome \in GetUserOutcomes(BearerToken(req.hdr)) :
              /\ calls' = Append(calls, GetUserCall(BearerToken(req.hdr), outcome))
              /\ req' = IF OptionalAuthAccepts(outcome)
                          THEN [req EXCEPT !.user = ResolvedUser(BearerToken(req.hdr)),
                                           !.token = BearerToken(req.hdr)]
                          ELSE req
       ELSE UNCHANGED <<req, calls>>
  /\ pc' = StageAfter(req.route, "optionalAuth")
  /\ UNCHANGED <<limiter, records, accounts, profiles, adminConfigured, clientSession, nreq, err, res,
                 handlerRan>>

\* Variant of PassesAdminGate that lets every authenticated principal through.
PassesAdminGateAnyUser(user) == user.present

\* req.user && req.user.user_metadata && req.user.user_metadata.role === 'admin'
PassesAdminGate(user) == user.present /\ user.hasMeta /\ user.role = "admin"

RequireAdmin ==
  /\ pc = "requireAdmin"
  /\ IF PassesAdminGate(req.user)
       THEN /\ pc' = StageAfter(req.route, "requireAdmin")
            /\ err' = err
       ELSE /\ err' = ApiError(403, "Admin access required")
            /\ pc' = "error"
  /\ UNCHANGED <<limiter, records, accounts, profiles, adminConfigured, clientSession, nreq, req, res,
                 calls, handlerRan>>

\* The sanitizers of the route's chains (trim) applied to the request body;
\* a chain skipped by optional() sanitizes nothing.
Sanitized(route, b) ==
  LET kind == RouteTable[route].kind
      table == RouteTable[route].table
      T(v) == IF v = Undefined THEN v ELSE Trim(v)
  IN CASE kind \in {"create", "update"} /\ table = "inventory_items" ->
            [b EXCEPT !.name = T(@), !.department = T(@), !.category = T(@), !.unit = T(@)]
       [] kind \in {"create", "update"} /\ table = "categories" ->
            [b EXCEPT !.name = T(@), !.department = T(@)]
       [] kind \in {"create", "update"} /\ table = "departments" ->
            [b EXCEPT !.name = T(@)]
       [] kind \in {"profilesCreate", "profilesPatch"} -> [b EXCEPT !.name = T(@)]
       [] kind = "activityCreate" -> [b EXCEPT !.item_name = T(@)]
       [] OTHER -> b

\* The route's express-validator chains run: they record the violations and
\* write the sanitized values back to req.body; they never end the request.
Validate ==
  /\ pc = "validate"
  /\ req' = [req EXCEPT !.verrors = Violations(req.route, req.id, req.body),
                        !.body = Sanitized(req.route, req.body)]
  /\ pc' = "handler"
  /\ UNCHANGED <<limiter, records, accounts, profiles, adminConfigured, clientSession, nreq, err, res,
                 calls, handlerRan>>

\* errorHandler: statusCode || 500; the message is replaced when it is 500.
ErrorStatus(e) == IF e.statusCode = 0 THEN 500 ELSE e.statusCode
\* Variant of ErrorMessage that always sends the failure's own message.
ErrorMessageVerbatim(e) == e.message

\* message: statusCode === 500 ? 'Internal server error' : message
ErrorMessage(e) == IF ErrorStatus(e) = 500 THEN "Internal server error" ELSE e.message

ErrorHandler ==
  /\ pc = "error"
  /\ res' = [sent |-> TRUE, status |-> ErrorStatus(err), success |-> FALSE,
             message |-> ErrorMessage(err), shape |-> "failure", rows |-> 0,
             pagination |-> NoPagination]
  /\ pc' = "done"
  /\ UNCHANGED <<limiter, records, accounts, profiles, adminConfigured, clientSession, nreq, req, err,
                 calls, handlerRan>>

\* ---------------------------------------------------------------- handlers
\* res.status(status).json({ success: true, message, ... })
Reply(status, message) ==
  /\ res' = [sent |-> TRUE, status |-> status, success |-> TRUE, message |-> message,
             shape |-> "success", rows |-> 0, pagination |-> NoPagination]
  /\ pc' = "done"
  /\ err' = err

\* throw inside the handler's try block: catch (error) { next(error) }
Throw(e) ==
  /\ err' = e
  /\ pc' = "error"
  /\ res' = res

InHandler(kinds) ==
  /\ pc = "handler"
  /\ RouteTable[req.route].kind \in kinds
  /\ handlerRan' = TRUE

\* Variant of ValidationFailed for a handler that does not read the result.
ValidationFailedIgnored == FALSE

\* !errors.isEmpty()
ValidationFailed == req.verrors # {}

StoreCall(op, table, target, role, language, result) ==
  Call("store", op, table, target, role, language, result)

\* GET /:id of every resource: select ... .eq(key, id).single()
SelectOutcomes(table, id) ==
  IF table = "profiles"
    THEN (IF profiles[id].exists THEN {"row"} ELSE {"norow"}) \cup {"error"}
    ELSE (IF RowExists(table, id) THEN {"row"} ELSE {"norow"}) \cup {"error"}

\* Variant of NotFound that lets a query error through.
NotFoundOnlyWithoutRow(outcome) == outcome = "norow"

\* error || !data
NotFound(outcome) == outcome # "row"

HandleGetById ==
  /\ InHandler({"getById"})
  /\ IF ValidationFailed
       THEN /\ Throw(ApiError(400, "Invalid ID"))
            /\ calls' = calls
       ELSE \E outcome \in SelectOutcomes(RouteTable[req.route].table, req.id) :
              /\ calls' = Append(calls, StoreCall("select", RouteTable[req.route].table,
                                                  req.id, Undefined, Undefined, outcome))
              /\ IF NotFound(outcome)
                   THEN Throw(ApiError(404, "not found"))
                   ELSE Reply(200, Undefined)
  /\ UNCHANGED <<limiter, records, accounts, profiles, adminConfigured, clientSession, nreq, req>>

\* POST / of inventory, categories, departments: insert(...).select().single()
HandleCreate ==
  /\ InHandler({"create"})
  /\ IF ValidationFailed
       THEN /\ Throw(ApiError(400, "Validation failed"))
            /\ UNCHANGED <<calls, records>>
       ELSE \E outcome \in {"ok", "error"} :
              /\ calls' = Append(calls, StoreCall("insert", RouteTable[req.route].table,
                                                  NoId, Undefined, Undefined, outcome))
              /\ IF outcome = "error"
                   THEN Throw(ApiError(400, "store error"))
                   ELSE Reply(201, "created successfully")
              /\ records' =
                   IF outcome = "ok"
                     THEN [records EXCEPT ![RouteTable[req.route].table][NewRecordId] =
                             [exists |-> TRUE, name |-> req.body.name,
                              quantity |-> req.body.quantity, user_id |-> req.user.id,
                              updated_at |-> 0]]
                     ELSE records
  /\ UNCHANGED <<limiter, accounts, profiles, adminConfigured, clientSession, nreq, req>>

\* update(updates).eq('id', id).select().single(): an error when no row matches.
UpdateOutcomes(table, id) ==
  (IF RowExists(table, id) THEN {"ok"} ELSE {}) \cup {"error"}

\* The row after update(updates): a field absent from the body keeps its
\* value; inventory.js adds updated_at, which the trigger
\* on_inventory_items_updated sets as well.
PatchedRow(table, row, b, now) ==
  [row EXCEPT !.name = IF b.name = Undefined THEN @ ELSE b.name,
              !.quantity = IF table = "inventory_items" /\ b.quantity # Undefined
                             THEN b.quantity ELSE @,
              !.updated_at = IF table = "inventory_items" THEN now ELSE @]

\* PATCH /:id of inventory, categories, departments
HandleUpdate ==
  /\ InHandler({"update"})
  /\ IF ValidationFailed
       THEN /\ Throw(ApiError(400, "Validation failed"))
            /\ UNCHANGED <<calls, records>>
       ELSE \E outcome \in UpdateOutcomes(RouteTable[req.route].table, req.id) :
              /\ calls' = Append(calls, StoreCall("update", RouteTable[req.route].table,
                                                  req.id, Undefined, Undefined, outcome))
              /\ IF outcome = "error"
                   THEN Throw(ApiError(400, "store error"))
                   ELSE Reply(200, "updated successfully")
              /\ records' =
                   IF outcome = "ok"
                     THEN [records EXCEPT ![RouteTable[req.route].table][req.id] =
                             PatchedRow(RouteTable[req.route].table, @, req.body, Now)]
                     ELSE records
  /\ UNCHANGED <<limiter, accounts, profiles, adminConfigured, clientSession, nreq, req>>

\* DELETE /:id of inventory, categories, departments, activity-log
HandleDelete ==
  /\ InHandler({"delete"})
  /\ IF ValidationFailed
       THEN /\ Throw(ApiError(400, "Invalid ID"))
            /\ UNCHANGED <<calls, records>>
       ELSE \E outcome \in {"ok", "error"} :
              /\ calls' = Append(calls, StoreCall("delete", RouteTable[req.route].table,
                                                  req.id, Undefined, Undefined, outcome))
              /\ IF outcome = "error"
                   THEN Throw(ApiError(400, "store error"))
                   ELSE Reply(200, "deleted successfully")
              /\ records' =
                   IF outcome = "ok" /\ RowExists(RouteTable[req.route].table, req.id)
                     THEN [records EXCEPT ![RouteTable[req.route].table][req.id] = NoRow]
                     ELSE records
  /\ UNCHANGED <<limiter, accounts, profiles, adminConfigured, clientSession, nreq, req>>

\* user_id || req.user.id
ActivityUserId(b, user) == IF b.user_id = NoId THEN user.id ELSE b.user_id

\* POST /api/activity-log
HandleActivityCreate ==
  /\ InHandler({"activityCreate"})
  /\ IF ValidationFailed
       THEN /\ Throw(ApiError(400, "Validation failed"))
            /\ UNCHANGED <<calls, records>>
       ELSE \E outcome \in {"ok", "error"} :
              /\ calls' = Append(calls, StoreCall("insert", "activity_log",
                                                  ActivityUserId(req.body, req.user),
                                                  Undefined, Undefined, outcome))
              /\ IF outcome = "error"
                   THEN Throw(ApiError(400, "store error"))
                   ELSE Reply(201, "Activity log entry created successfully")
              /\ records' =
                   IF outcome = "ok"
                     THEN [records EXCEPT !["activity_log"][NewRecordId] =
                             [exists |-> TRUE, name |-> req.body.item_name,
                              quantity |-> Undefined,
                              user_id |-> ActivityUserId(req.body, req.user),
                              updated_at |-> 0]]
                     ELSE records
  /\ UNCHANGED <<limiter, accounts, profiles, adminConfigured, clientSession, nreq, req>>

\* ------------------------------------------------------------ list routes
\* The values of the page and limit query parameters the clients send.
PageValues == {Undefined, "abc", "5abc", "0", "-1", "1", "4"}
LimitValues == {Undefined, "abc", "10", "0", "-5"}
\* The exact counts the store reports for a list query.
Totals == {0, 25}

\* parseInt(s): the integer a string starts with, NaN when there is none.
ParseIntJs(s) ==
  CASE s = "0" -> [nan |-> FALSE, value |-> 0]
    [] s = "1" -> [nan |-> FALSE, value |-> 1]
    [] s = "4" -> [nan |-> FALSE, value |-> 4]
    [] s = "10" -> [nan |-> FALSE, value |-> 10]
    [] s = "-1" -> [nan |-> FALSE, value |-> -1]
    [] s = "-5" -> [nan |-> FALSE, value |-> -5]
    [] s = "5abc" -> [nan |-> FALSE, value |-> 5]
    [] OTHER -> [nan |-> TRUE, value |-> 0]

\* Variant of OrNumber that only replaces NaN.
OrNumberKeepingZero(n, d) == IF n.nan THEN d ELSE n.value

\* n || d for a number n: NaN and 0 are falsy.
OrNumber(n, d) == IF n.nan \/ n.value = 0 THEN d ELSE n.value

\* Variant of PageOf that keeps a page of 0.
PageOfKeepingZero(q) == OrNumberKeepingZero(ParseIntJs(q.page), 1)

\* const page = parseInt(req.query.page) || 1
PageOf(q) == OrNumber(ParseIntJs(q.page), 1)
\* const limit = parseInt(req.query.limit) || 10
LimitOf(q) == OrNumber(ParseIntJs(q.limit), 10)
\* const offset = (page - 1) * limit
OffsetOf(q) == (PageOf(q) - 1) * LimitOf(q)

\* Variant of TotalPages that rounds down.
TotalPagesFloor(total, limit) ==
  IF limit > 0 THEN total \div limit ELSE -((total + (-limit) - 1) \div (-limit))

\* Math.ceil(total / limit), limit # 0
TotalPages(total, limit) ==
  IF limit > 0 THEN (total + limit - 1) \div limit ELSE -(total \div (-limit))

\* The number of rows with index in from..to among total rows: the data the
\* store returns for range(from, to).
RowsInRange(total, from, to) ==
  Cardinality({ i \in 0..(total - 1) : from <= i /\ i <= to })

\* The store call of a list query: the inclusive range it asks for.
RangeCall(table, from, to, result) ==
  [svc |-> "store", op |-> "range", table |-> table, target |-> NoId, role |-> Undefined,
   language |-> Undefined, result |-> result, from |-> from, to |-> to]

\* GET / of every resource:
\* select(columns, { count: 'exact' }).range(offset, offset + limit - 1)
HandleList ==
  /\ InHandler({"list"})
  /\ \E outcome \in {"ok", "error"}, total \in Totals :
       LET page == PageOf(req.query)
           limit == LimitOf(req.query)
           from == OffsetOf(req.query)
           to == from + limit - 1
       IN /\ calls' = Append(calls, RangeCall(RouteTable[req.route].table, from, to, outcome))
          /\ IF outcome = "error"
               THEN Throw(ApiError(400, "store error"))
               ELSE /\ res' = [sent |-> TRUE, status |-> 200, success |-> TRUE,
                               message |-> Undefined, shape |-> "success",
                               rows |-> RowsInRange(total, from, to),
                               pagination |-> [page |-> page, limit |-> limit,
                                               total |-> total,
                                               totalPages |-> TotalPages(total, limit)]]
                    /\ pc' = "done"
                    /\ err' = err
  /\ UNCHANGED <<limiter, records, accounts, profiles, adminConfigured, clientSession,
                 nreq, req>>

\* ---------------------------------------------- health and unknown routes
\* GET /api/health
HandleHealth ==
  /\ InHandler({"health"})
  /\ res' = [NoRes EXCEPT !.sent = TRUE, !.status = 200, !.shape = "health"]
  /\ pc' = "done"
  /\ UNCHANGED <<limiter, records, accounts, profiles, adminConfigured, clientSession,
                 nreq, req, err, calls>>

\* GET /api/health/db: select('*').limit(1) on _health_check; an error about a
\* missing relation still counts as connected.
HandleHealthDb ==
  /\ InHandler({"healthDb"})
  /\ \E outcome \in {"ok", "missing relation", "error", "throw"} :
       /\ calls' = Append(calls, StoreCall("select", "_health_check", NoId, Undefined,
                                           Undefined, outcome))
       /\ res' = IF outcome \in {"ok", "missing relation"}
                   THEN [NoRes EXCEPT !.sent = TRUE, !.status = 200, !.shape = "health"]
                   ELSE [NoRes EXCEPT !.sent = TRUE, !.status = 503, !.shape = "health",
                                      !.message = "store error"]
  /\ pc' = "done"
  /\ UNCHANGED <<limiter, records, accounts, profiles, adminConfigured, clientSession,
                 nreq, req, err>>

\* notFoundHandler: no route matched a path under /api
NotFoundHandler ==
  /\ pc = "handler"
  /\ RouteTable[req.route].kind = "unknown"
  /\ err' = ApiError(404, "Route not found")
  /\ pc' = "error"
  /\ UNCHANGED <<limiter, records, accounts, profiles, adminConfigured, clientSession,
                 nreq, req, res, calls, handlerRan>>

\* ------------------------------------------------- users and profiles
\* The profiles table's constraints: primary key and foreign key on user_id,
\* profiles_role_check and profiles_language_check.
InsertOutcomes(accountExists, profileExists, role, language) ==
  (IF /\ accountExists
      /\ ~profileExists
      /\ role \in ProfileRoleEnum
      /\ language \in LanguageEnum
     THEN {"ok"} ELSE {}) \cup {"error"}

ProfileInsertOutcomes(id, role, language) ==
  InsertOutcomes(accounts[id].exists, profiles[id].exists, role, language)

\* update(updates).eq('user_id', id).select().single(): an error when no row
\* matches or a check constraint rejects the new values.
ProfileUpdateOutcomes(id, role, language) ==
  (IF /\ id \in Ids
      /\ profiles[id].exists
      /\ (role = Undefined \/ role \in ProfileRoleEnum)
      /\ (language = Undefined \/ language \in LanguageEnum)
     THEN {"ok"} ELSE {}) \cup {"error"}

\* Variant of PatchedProfile whose role flips back when it is written twice.
PatchedProfileToggling(row, role, language, now) ==
  [row EXCEPT !.role = IF role = Undefined THEN @
                        ELSE IF @ = role THEN "staff" ELSE role,
              !.language = IF language = Undefined THEN @ ELSE language,
              !.updated_at = now]

\* The row after update(updates): a field absent from updates keeps its value;
\* updated_at is set by the handler (users.js) and by the trigger
\* on_profiles_updated to the time of the update.
PatchedProfile(row, role, language, now) ==
  [row EXCEPT !.role = IF role = Undefined THEN @ ELSE role,
              !.language = IF language = Undefined THEN @ ELSE language,
              !.updated_at = now]

\* { ...currentMetadata, role, language } written by updateUserById
PatchedAccount(acct, role, language) ==
  [acct EXCEPT !.hasMeta = TRUE,
               !.role = IF role = Undefined THEN @ ELSE role,
               !.language = IF language = Undefined THEN @ ELSE language]

\* users.js: req.user.user_metadata && req.user.user_metadata.role === 'Admin'
UsersIsAdmin(user) == user.hasMeta /\ user.role = "Admin"

\* Variant of UsersAuthorized without the ownership check.
UsersAuthorizedAnyone(user, id) == user.present

\* users.js: the request passes the check of PATCH and DELETE /api/users/:id
UsersAuthorized(user, id) == user.id = id \/ UsersIsAdmin(user)

\* Variant of ProfilesAuthorized that also lets the role 'admin' through.
ProfilesAuthorizedOrAdmin(user, id) ==
  user.id = id \/ (user.hasMeta /\ user.role = "admin")

\* profiles.js: the request passes the check of PATCH and DELETE
\* /api/profiles/:user_id
ProfilesAuthorized(user, id) == user.id = id

\* (name !== undefined || role !== undefined || language !== undefined) && supabaseAdmin
TouchesMetadata(b) ==
  (b.name # Undefined \/ b.role # Undefined \/ b.language # Undefined) /\ adminConfigured

AccountUpdateOutcomes(id) ==
  (IF id \in Ids /\ accounts[id].exists THEN {"ok"} ELSE {}) \cup {"error"}

\* PATCH /api/users/:id
HandleUsersPatch ==
  /\ InHandler({"usersPatch"})
  /\ IF ValidationFailed
       THEN /\ Throw(ApiError(400, "Validation failed"))
            /\ UNCHANGED <<calls, accounts, profiles>>
       ELSE IF ~UsersAuthorized(req.user, req.id)
         THEN /\ Throw(ApiError(403, "Forbidden"))
              /\ UNCHANGED <<calls, accounts, profiles>>
         ELSE \E mo \in AccountUpdateOutcomes(req.id),
                 so \in ProfileUpdateOutcomes(req.id, req.body.role, req.body.language) :
                LET b == req.body
                    metaCalls ==
                      IF TouchesMetadata(b)
                        THEN << Call("identity", "getUserById", "none", req.id, Undefined,
                                     Undefined,
                                     IF accounts[req.id].exists THEN "ok" ELSE "error"),
                                Call("identity", "updateUserById", "none", req.id, b.role,
                                     b.language, mo) >>
                        ELSE << >>
                IN /\ accounts' =
                        IF TouchesMetadata(b) /\ mo = "ok"
                          THEN [accounts EXCEPT ![req.id] = PatchedAccount(@, b.role, b.language)]
                          ELSE accounts
                   /\ calls' = calls \o metaCalls \o
                        << StoreCall("update", "profiles", req.id, b.role, b.language, so) >>
                   /\ profiles' =
                        IF so = "ok"
                          THEN [profiles EXCEPT ![req.id] = PatchedProfile(@, b.role, b.language, Now)]
                          ELSE profiles
                   /\ IF so = "error"
                        THEN Throw(ApiError(400, "store error"))
                        ELSE Reply(200, "User profile updated successfully")
  /\ UNCHANGED <<limiter, records, adminConfigured, clientSession, nreq, req>>

\* DELETE /api/users/:id and DELETE /api/profiles/:user_id
DeleteAuthorized(kind, user, id) ==
  IF kind = "usersDelete" THEN UsersAuthorized(user, id) ELSE ProfilesAuthorized(user, id)

HandleProfileDelete ==
  /\ InHandler({"usersDelete", "profilesDelete"})
  /\ IF ValidationFailed
       THEN /\ Throw(ApiError(400, "Invalid user ID"))
            /\ UNCHANGED <<calls, profiles>>
       ELSE IF ~DeleteAuthorized(RouteTable[req.route].kind, req.user, req.id)
         THEN /\ Throw(ApiError(403, "Forbidden"))
              /\ UNCHANGED <<calls, profiles>>
         ELSE \E so \in {"ok", "error"} :
                /\ calls' = Append(calls, StoreCall("delete", "profiles", req.id, Undefined,
                                                    Undefined, so))
                /\ profiles' = IF so = "ok" THEN [profiles EXCEPT ![req.id] = NoProfile]
                                            ELSE profiles
                /\ IF so = "error"
                     THEN Throw(ApiError(400, "store error"))
                     ELSE Reply(200, "deleted successfully")
  /\ UNCHANGED <<limiter, records, accounts, adminConfigured, clientSession, nreq, req>>

\* POST /api/profiles
HandleProfilesCreate ==
  /\ InHandler({"profilesCreate"})
  /\ IF ValidationFailed
       THEN /\ Throw(ApiError(400, "Validation failed"))
            /\ UNCHANGED <<calls, profiles>>
       ELSE IF req.user.id # req.body.user_id
         THEN /\ Throw(ApiError(403, "Forbidden: You can only create your own profile"))
              /\ UNCHANGED <<calls, profiles>>
         ELSE LET role == ToLowerCase(OrDefault(req.body.role, "Staff"))
                  language == OrDefault(req.body.language, "en")
              IN \E so \in ProfileInsertOutcomes(req.body.user_id, role, language) :
                   /\ calls' = Append(calls, StoreCall("insert", "profiles", req.body.user_id,
                                                       role, language, so))
                   /\ profiles' =
                        IF so = "ok"
                          THEN [profiles EXCEPT ![req.body.user_id] =
                                  [exists |-> TRUE, role |-> role, language |-> language,
                                   updated_at |-> Now]]
                          ELSE profiles
                   /\ IF so = "error"
                        THEN Throw(ApiError(400, "store error"))
                        ELSE Reply(201, "Profile created successfully")
  /\ UNCHANGED <<limiter, records, accounts, adminConfigured, clientSession, nreq, req>>

\* PATCH /api/profiles/:user_id
HandleProfilesPatch ==
  /\ InHandler({"profilesPatch"})
  /\ IF ValidationFailed
       THEN /\ Throw(ApiError(400, "Validation failed"))
            /\ UNCHANGED <<calls, profiles>>
       ELSE IF ~ProfilesAuthorized(req.user, req.id)
         THEN /\ Throw(ApiError(403, "Forbidden: You can only update your own profile"))
              /\ UNCHANGED <<calls, profiles>>
         ELSE LET role == IF req.body.role = Undefined THEN Undefined
                                                       ELSE ToLowerCase(req.body.role)
                  language == req.body.language
              IN \E so \in ProfileUpdateOutcomes(req.id, role, language) :
                   /\ calls' = Append(calls, StoreCall("update", "profiles", req.id, role,
                                                       language, so))
                   /\ profiles' =
                        IF so = "ok"
                          THEN [profiles EXCEPT ![req.id] = PatchedProfile(@, role, language, Now)]
                          ELSE profiles
                   /\ IF so = "error"
                        THEN Throw(ApiError(400, "store error"))
                        ELSE Reply(200, "Profile updated successfully")
  /\ UNCHANGED <<limiter, records, accounts, adminConfigured, clientSession, nreq, req>>

\* ---------------------------------------------------------- auth routes
\* The account an email address or a refresh token of the model belongs to.
EmailOwner(email) == IF email = "old@x.io" THEN 1 ELSE FreshId
RefreshTokenOwner == 1

\* (metadata?.role || 'Staff').toLowerCase()
NormalizedRole(b) == ToLowerCase(OrDefault(b.role, "Staff"))

SignUpOutcomes == (IF ~accounts[FreshId].exists THEN {"ok"} ELSE {}) \cup {"error"}

\* The compensating action of signup: supabaseAdmin.auth.admin.deleteUser(id).
\* With supabaseAdmin null the member access throws a TypeError instead.
CleanupCalls(id, outcome) ==
  IF adminConfigured
    THEN << Call("identity", "deleteUser", "none", id, Undefined, Undefined, outcome) >>
    ELSE << >>

CleanupError ==
  IF adminConfigured
    THEN ApiError(500, "Failed to create user profile. User account has been cleaned up.")
    ELSE PlainError("TypeError: Cannot read properties of null")

\* POST /api/auth/signup
HandleSignup ==
  /\ InHandler({"signup"})
  /\ IF ValidationFailed
       THEN /\ Throw(ApiError(400, "Validation failed"))
            /\ UNCHANGED <<calls, accounts, profiles, clientSession>>
       ELSE \E su \in SignUpOutcomes, del \in {"ok", "error"} :
              LET b == req.body
                  role == NormalizedRole(b)
                  language == OrDefault(b.language, "en")
                  signUpCall == Call("identity", "signUp", "none",
                                     IF su = "ok" THEN FreshId ELSE NoId,
                                     role, b.language, su)
                  created == [exists |-> TRUE, hasMeta |-> TRUE, role |-> role,
                              language |-> b.language, password |-> b.password]
              IN IF su = "error"
                   THEN /\ calls' = Append(calls, signUpCall)
                        /\ Throw(ApiError(400, "signUp error"))
                        /\ UNCHANGED <<accounts, profiles, clientSession>>
                   ELSE \E po \in InsertOutcomes(TRUE, profiles[FreshId].exists, role, language) :
                          LET insertCall == StoreCall("insert", "profiles", FreshId, role,
                                                      language, po)
                          IN /\ clientSession' = FreshId
                             /\ IF po = "ok"
                                  THEN /\ calls' = calls \o << signUpCall, insertCall >>
                                       /\ accounts' = [accounts EXCEPT ![FreshId] = created]
                                       /\ profiles' = [profiles EXCEPT ![FreshId] =
                                            [exists |-> TRUE, role |-> role,
                                             language |-> language, updated_at |-> Now]]
                                       /\ Reply(201, "User registered successfully")
                                  ELSE /\ calls' = calls \o << signUpCall, insertCall >>
                                                     \o CleanupCalls(FreshId, del)
                                       /\ accounts' =
                                            IF adminConfigured /\ del = "ok"
                                              THEN accounts
                                              ELSE [accounts EXCEPT ![FreshId] = created]
                                       /\ profiles' = profiles
                                       /\ Throw(CleanupError)
  /\ UNCHANGED <<limiter, records, adminConfigured, nreq, req>>

\* POST /api/auth/login: supabase.auth.signInWithPassword on the shared client
SignInOutcomes(b) ==
  (IF accounts[EmailOwner(b.email)].exists
      /\ accounts[EmailOwner(b.email)].password = b.password
     THEN {"ok"} ELSE {}) \cup {"error"}

HandleLogin ==
  /\ InHandler({"login"})
  /\ IF ValidationFailed
       THEN /\ Throw(ApiError(400, "Validation failed"))
            /\ UNCHANGED <<calls, clientSession>>
       ELSE \E o \in SignInOutcomes(req.body) :
              /\ calls' = Append(calls, Call("identity", "signInWithPassword", "none",
                                             EmailOwner(req.body.email), Undefined,
                                             Undefined, o))
              /\ clientSession' = IF o = "ok" THEN EmailOwner(req.body.email)
                                              ELSE clientSession
              /\ IF o = "error"
                   THEN Throw(ApiError(401, "Invalid login credentials"))
                   ELSE Reply(200, "Login successful")
  /\ UNCHANGED <<limiter, records, accounts, profiles, adminConfigured, nreq, req>>

\* POST /api/auth/logout: supabase.auth.signOut() on the shared client
HandleLogout ==
  /\ InHandler({"logout"})
  /\ \E o \in {"ok", "error"} :
       /\ calls' = Append(calls, Call("identity", "signOut", "none", clientSession,
                                      Undefined, Undefined, o))
       /\ clientSession' = IF o = "ok" THEN NoSession ELSE clientSession
       /\ IF o = "error"
            THEN Throw(ApiError(400, "signOut error"))
            ELSE Reply(200, "Logout successful")
  /\ UNCHANGED <<limiter, records, accounts, profiles, adminConfigured, nreq, req>>

\* POST /api/auth/refresh: supabase.auth.refreshSession on the shared client
HandleRefresh ==
  /\ InHandler({"refresh"})
  /\ IF ValidationFailed
       THEN /\ Throw(ApiError(400, "Validation failed"))
            /\ UNCHANGED <<calls, clientSession>>
       ELSE \E o \in (IF accounts[RefreshTokenOwner].exists THEN {"ok"} ELSE {}) \cup {"error"} :
              /\ calls' = Append(calls, Call("identity", "refreshSession", "none",
                                             RefreshTokenOwner, Undefined, Undefined, o))
              /\ clientSession' = IF o = "ok" THEN RefreshTokenOwner ELSE clientSession
              /\ IF o = "error"
                   THEN Throw(ApiError(401, "refresh error"))
                   ELSE Reply(200, "Token refreshed successfully")
  /\ UNCHANGED <<limiter, records, accounts, profiles, adminConfigured, nreq, req>>

\* GET /api/auth/me
HandleMe ==
  /\ InHandler({"me"})
  /\ Reply(200, Undefined)
  /\ UNCHANGED <<limiter, records, accounts, profiles, adminConfigured, clientSession, nreq, req, calls>>

\* POST /api/auth/reset-password
HandleResetPassword ==
  /\ InHandler({"resetPassword"})
  /\ IF ValidationFailed
       THEN /\ Throw(ApiError(400, "Validation failed"))
            /\ calls' = calls
       ELSE \E o \in {"ok", "error"} :
              /\ calls' = Append(calls, Call("identity", "resetPasswordForEmail", "none",
                                             EmailOwner(req.body.email), Undefined,
                                             Undefined, o))
              /\ IF o = "error"
                   THEN Throw(ApiError(400, "reset error"))
                   ELSE Reply(200, "Password reset email sent")
  /\ UNCHANGED <<limiter, records, accounts, profiles, adminConfigured, clientSession, nreq, req>>

\* POST /api/auth/update-password: supabase.auth.updateUser({ password }) acts
\* on the account whose session the shared client holds.
UpdateUserOutcomes ==
  (IF clientSession # NoSession /\ accounts[clientSession].exists THEN {"ok"} ELSE {})
    \cup {"error"}

HandleUpdatePassword ==
  /\ InHandler({"updatePassword"})
  /\ IF ValidationFailed
       THEN /\ Throw(ApiError(400, "Validation failed"))
            /\ UNCHANGED <<calls, accounts>>
       ELSE \E o \in UpdateUserOutcomes :
              /\ calls' = Append(calls, Call("identity", "updateUser", "none", clientSession,
                                             Undefined, Undefined, o))
              /\ accounts' = IF o = "ok"
                               THEN [accounts EXCEPT ![clientSession].password =
                                       req.body.password]
                               ELSE accounts
              /\ IF o = "error"
                   THEN Throw(ApiError(400, "updateUser error"))
                   ELSE Reply(200, "Password updated successfully")
  /\ UNCHANGED <<limiter, records, profiles, adminConfigured, clientSession, nreq, req>>

\* POST /api/auth/admin/reset-password/:userId
HandleAdminResetPassword ==
  /\ InHandler({"adminResetPassword"})
  /\ IF ValidationFailed
       THEN /\ Throw(ApiError(400, "Validation failed"))
            /\ UNCHANGED <<calls, accounts>>
       ELSE IF ~adminConfigured
         THEN /\ Throw(PlainError("TypeError: Cannot read properties of null"))
              /\ UNCHANGED <<calls, accounts>>
         ELSE \E o \in AccountUpdateOutcomes(req.id) :
                /\ calls' = Append(calls, Call("identity", "updateUserById", "none", req.id,
                                               Undefined, Undefined, o))
                /\ accounts' = IF o = "ok"
                                 THEN [accounts EXCEPT ![req.id].password = req.body.password]
                                 ELSE accounts
                /\ IF o = "error"
                     THEN Throw(ApiError(400, "updateUserById error"))
                     ELSE Reply(200, "Password reset successfully")
  /\ UNCHANGED <<limiter, records, profiles, adminConfigured, clientSession, nreq, req>>

\* The response has been sent: the per-request objects (req, res, the error)
\* are dropped and the server waits for the next request.
EndRequest ==
  /\ pc = "done"
  /\ pc' = "idle"
  /\ req' = NoRequest
  /\ err' = NoErr
  /\ res' = NoRes
  /\ calls' = <<>>
  /\ handlerRan' = FALSE
  /\ UNCHANGED <<limiter, records, accounts, profiles, adminConfigured, clientSession, nreq>>

\* ------------------------------------------------- front gate, many clients
\* Requests in flight at the same time between the limiter and their route.
MaxWaiting == 2

\* Variant of OverLimit that refuses one request later.
OverLimitOffByOne(count) == count > RateLimitMax + 1

\* express-rate-limit: totalHits > max
OverLimit(count) == count > RateLimitMax

\* A request to a path under /api/ arrives from address a with an Origin
\* header: the cors middleware, then the limiter, then the routes.
Arrive(a, origin) ==
  /\ pc = "idle"
  /\ limiter.hits[a] <= RateLimitMax
  /\ (OriginAllowed(origin) /\ ~OverLimit(limiter.hits[a] + 1))
        => limiter.waiting[a] < MaxWaiting
  /\ IF ~OriginAllowed(origin)
       THEN /\ res' = [NoRes EXCEPT !.sent = TRUE, !.status = 403, !.shape = "cors",
                                     !.message = "CORS error: origin not allowed"]
            /\ limiter' = limiter
       ELSE LET count == limiter.hits[a] + 1
            IN IF OverLimit(count)
                 THEN /\ res' = [NoRes EXCEPT !.sent = TRUE, !.status = 429, !.shape = "text",
                                   !.message = "Too many requests from this IP, please try again later."]
                      /\ limiter' = [limiter EXCEPT !.hits[a] = count]
                 ELSE /\ res' = NoRes
                      /\ limiter' = [limiter EXCEPT !.hits[a] = count,
                                                    !.passed[a] = @ + 1,
                                                    !.waiting[a] = @ + 1]
  /\ UNCHANGED <<accounts, profiles, records, adminConfigured, clientSession, nreq, pc,
                 req, err, calls, handlerRan>>

\* The route of a request the limiter passed on runs.
Serve(a) ==
  /\ pc = "idle"
  /\ limiter.waiting[a] > 0
  /\ limiter' = [limiter EXCEPT !.waiting[a] = @ - 1]
  /\ res' = NoRes
  /\ UNCHANGED <<accounts, profiles, records, adminConfigured, clientSession, nreq, pc,
                 req, err, calls, handlerRan>>

\* windowMs elapsed for address a: its counter starts again.
WindowElapsed(a) ==
  /\ pc = "idle"
  /\ limiter.hits[a] > 0
  /\ limiter' = [limiter EXCEPT !.hits[a] = 0, !.passed[a] = 0]
  /\ res' = NoRes
  /\ UNCHANGED <<accounts, profiles, records, adminConfigured, clientSession, nreq, pc,
                 req, err, calls, handlerRan>>

GateNext ==
  \/ \E a \in Addresses, origin \in Origins : Arrive(a, origin)
  \/ \E a \in Addresses : Serve(a)
  \/ \E a \in Addresses : WindowElapsed(a)

\* The front gate is followed from one state of the store.
GateInit ==
  /\ Init
  /\ adminConfigured
  /\ accounts[1].role = "admin"

GateSpec == GateInit /\ [][GateNext]_vars

\* ------------------------------------------------------------ specification
Next ==
  \/ \E route \in Routes, hdr \in Headers :
       \E id \in PathParams(route), body \in Bodies(route) :
         NewRequest(route, hdr, id, body)
  \/ Authenticate
  \/ OptionalAuth
  \/ RequireAdmin
  \/ Validate
  \/ ErrorHandler
  \/ HandleGetById
  \/ HandleCreate
  \/ HandleUpdate
  \/ HandleDelete
  \/ HandleActivityCreate
  \/ HandleList
  \/ HandleHealth
  \/ HandleHealthDb
  \/ NotFoundHandler
  \/ HandleUsersPatch
  \/ HandleProfileDelete
  \/ HandleProfilesCreate
  \/ HandleProfilesPatch
  \/ HandleSignup
  \/ HandleLogin
  \/ HandleLogout
  \/ HandleRefresh
  \/ HandleMe
  \/ HandleResetPassword
  \/ HandleUpdatePassword
  \/ HandleAdminResetPassword
  \/ EndRequest

Spec == Init /\ [][Next]_vars

\* --------------------------------------- list requests with a query string
\* The Authorization headers of the list requests: none, or account 1's token.
ListHeaders == { h \in Headers : ~h.present \/ (h.prefix = "Bearer " /\ h.rest = 1) }

\* A client sends a list request with page and limit in the query string.
NewListRequest(route, hdr, page, limit) ==
  /\ pc = "idle"
  /\ nreq < MaxRequests
  /\ nreq' = nreq + 1
  /\ req' = [NoRequest EXCEPT !.route = route, !.hdr = hdr,
                              !.query = [page |-> page, limit |-> limit]]
  /\ pc' = StageAfter(route, "start")
  /\ err' = NoErr
  /\ res' = NoRes
  /\ calls' = <<>>
  /\ handlerRan' = FALSE
  /\ UNCHANGED <<limiter, records, accounts, profiles, adminConfigured, clientSession>>

ListNext ==
  \/ \E route \in ListRoutes, hdr \in ListHeaders :
       \E page \in PageValues, limit \in LimitValues :
         NewListRequest(route, hdr, page, limit)
  \/ Authenticate
  \/ OptionalAuth
  \/ HandleList
  \/ ErrorHandler
  \/ EndRequest

ListSpec == Init /\ [][ListNext]_vars

\* ------------------------------------------------------------------ claims
\* Vocabulary of the statements below, in terms of the request in flight.
InFlight == pc # "idle"
Kind == IF InFlight THEN RouteTable[req.route].kind ELSE "none"
Guarded == InFlight /\ RouteTable[req.route].auth = "authenticate"
AdminGated == InFlight /\ RouteTable[req.route].admin
Finished == pc = "done"
\* The Authorization header is absent or does not start with 'Bearer '.
BadHeader == ~req.hdr.present \/ req.hdr.prefix # "Bearer "
\* The identity oracle was asked and did not return a user without error.
OracleRefused ==
  \E i \in 1..Len(calls) : calls[i].op = "getUser" /\ calls[i].result # "user"
OracleAccepted ==
  \E i \in 1..Len(calls) :
    calls[i].op = "getUser" /\ calls[i].result = "user" /\ calls[i].target = req.hdr.rest
\* isAdmin of the specification: the role compared case-insensitively.
IsAdminCaseInsensitive(user) ==
  user.present /\ user.hasMeta /\ ToLowerCase(user.role) = "admin"
Failed(status) ==
  /\ err.raised /\ err.statusCode = status
  /\ pc \in {"error", "done"}
  /\ (Finished => res.sent /\ res.status = status /\ ~res.success)

\* C1: on a route guarded by authenticate, a request whose header is absent or
\* not a Bearer header, or whose token the oracle refuses (error, no user, or
\* a throwing call), ends with 401 and neither the handler nor a record-store
\* call runs; a principal attached to the request is the user the oracle
\* resolved for the request's token.
C1_MandatoryAuth ==
  Guarded =>
    /\ (pc # "authenticate" /\ (BadHeader \/ OracleRefused)) =>
         (Failed(401) /\ ~handlerRan /\ StoreCalls = {} /\ ~req.user.present)
    /\ req.user.present => (OracleAccepted /\ req.user.id = req.hdr.rest)
    /\ handlerRan => req.user.present

C1_Witness ==
  /\ Guarded /\ Finished /\ ~BadHeader /\ OracleRefused
  /\ res.status = 401 /\ ~handlerRan

\* C2: on a route behind optionalAuth no header value and no oracle outcome
\* fails the request: it reaches the handler with no error raised, and a
\* principal is attached only when the oracle returned a user with no error.
C2_OptionalAuthNeverFails ==
  (InFlight /\ RouteTable[req.route].auth = "optionalAuth") =>
    /\ ~handlerRan => (~err.raised /\ pc \in {"optionalAuth", "validate", "handler"})
    /\ req.user.present <=> OracleAccepted
    /\ (BadHeader \/ OracleRefused) => ~req.user.present

C2_Witness ==
  /\ InFlight /\ RouteTable[req.route].auth = "optionalAuth"
  /\ handlerRan /\ ~req.user.present
  /\ \E i \in 1..Len(calls) : calls[i].op = "getUser" /\ calls[i].result = "throw"

\* C3: PATCH and DELETE /api/users/:id pass the authorization check iff the
\* principal is the target or its role is 'admin' compared case-insensitively;
\* every other pair is rejected with 403.
C3_UsersSelfOrAdminAnyCase ==
  (Kind \in {"usersPatch", "usersDelete"} /\ handlerRan /\ req.verrors = {}) =>
    ((err.raised /\ err.statusCode = 403) <=>
       ~(req.user.id = req.id \/ IsAdminCaseInsensitive(req.user)))

\* C4: requireAdmin lets a request through iff the principal's role, lowered,
\* equals 'admin', and fails with 403 otherwise.
C4_RequireAdminAnyCase ==
  (AdminGated /\ req.user.present /\ pc # "requireAdmin") =>
    ((err.raised /\ err.statusCode = 403 /\ ~handlerRan) <=>
       ~IsAdminCaseInsensitive(req.user))

\* C5: on the create, update and delete routes of inventory, categories and
\* departments and on activity-log delete, an authenticated principal that is
\* not an admin gets 403 and no record-store call is issued.
C5_NonAdminRejected ==
  (Kind \in {"create", "update", "delete"} /\ req.user.present
     /\ ~IsAdminCaseInsensitive(req.user) /\ pc # "requireAdmin") =>
    (Failed(403) /\ StoreCalls = {} /\ ~handlerRan)

C5_Witness ==
  /\ Finished /\ req.route = "DELETE /api/categories/:id"
  /\ req.user.present /\ req.user.role = "staff" /\ req.id \in RecordIds
  /\ res.status = 403 /\ StoreCalls = {}

\* C6: on PATCH and DELETE of /api/users/:id and /api/profiles/:user_id a
\* principal that is neither the target nor an admin, or a request the
\* handler answers 403, sends no update or delete to the record store and
\* changes no account metadata in the identity service.
C6_NoMutationWhenUnauthorized ==
  (Kind \in {"usersPatch", "usersDelete", "profilesPatch", "profilesDelete"}
     /\ req.user.present
     /\ \/ (req.id \in Ids /\ req.user.id # req.id /\ ~IsAdminCaseInsensitive(req.user))
        \/ (err.raised /\ err.statusCode = 403)) =>
    (StoreCalls = {} /\ IdentityMutations = {})

C6_Witness ==
  /\ Finished /\ req.route = "PATCH /api/users/:id"
  /\ req.user.present /\ req.user.id = 2 /\ req.id = 1 /\ req.body.role = "admin"
  /\ ~IsAdminCaseInsensitive(req.user)
  /\ res.status = 403 /\ StoreCalls = {} /\ IdentityMutations = {}

ProfileInsertFailed ==
  /\ Kind = "signup"
  /\ \E i \in 1..Len(calls) : calls[i].op = "signUp" /\ calls[i].result = "ok"
  /\ \E i \in 1..Len(calls) :
       calls[i].svc = "store" /\ calls[i].op = "insert" /\ calls[i].result = "error"

C8_SignupCompensates ==
  ProfileInsertFailed =>
    /\ \E i \in 1..Len(calls) : calls[i].op = "deleteUser" /\ calls[i].target = FreshId
    /\ Finished => res.status = 500

\* C9: signup answers 401 to an unauthenticated request and 403 to a
\* non-admin one, creating neither account nor profile; an admin caller with
\* a valid new email and password, the external calls succeeding, gets 201.
AllCallsSucceeded ==
  \A i \in 1..Len(calls) : calls[i].result \in {"ok", "user"}

C9_SignupAdminOnly ==
  (Kind = "signup" /\ Finished) =>
    /\ ~req.user.present =>
         (res.status = 401 /\ StoreCalls = {} /\ IdentityMutations = {})
    /\ (req.user.present /\ ~IsAdminCaseInsensitive(req.user)) =>
         (res.status = 403 /\ StoreCalls = {} /\ IdentityMutations = {})
    /\ (IsAdminCaseInsensitive(req.user) /\ IsEmail(req.body.email)
          /\ IsLengthMin6(req.body.password) /\ AllCallsSucceeded
          /\ FreshId \notin ExistingIds) =>
         (res.status = 201 /\ res.success)

\* C10 as stated: on a route with validators a request that violates a rule
\* ends with 400 and no record-store call.
ViolatesRule ==
  InFlight /\ HasValidators(req.route) /\ Violations(req.route, req.id, req.body) # {}

NotFoundResponse ==
  [sent |-> TRUE, status |-> 404, success |-> FALSE, message |-> "not found",
   shape |-> "failure", rows |-> 0, pagination |-> NoPagination]

C11_GetByIdNotFound ==
  (Kind = "getById" /\ handlerRan /\ req.verrors = {}) =>
    \A i \in 1..Len(calls) :
      (calls[i].op = "select" /\ calls[i].result \in {"norow", "error"}) =>
        /\ Failed(404)
        /\ Finished => res = NotFoundResponse

C11_Witness ==
  /\ Finished /\ req.route = "GET /api/inventory/:id" /\ req.id \in RecordIds
  /\ \E i \in 1..Len(calls) : calls[i].op = "select" /\ calls[i].result = "error"
  /\ res.status = 404

\* A list request the store answered without error.
ListAnswered == Kind = "list" /\ Finished /\ res.success
\* The range the list request asked the store for.
AskedRange(from, to) ==
  \E i \in 1..Len(calls) :
    calls[i].op = "range" /\ calls[i].from = from /\ calls[i].to = to
\* tp = ceil(total / limit), stated without the division.
IsCeiling(tp, total, limit) ==
  IF limit > 0 THEN tp * limit >= total /\ (tp - 1) * limit < total
               ELSE tp * limit <= total /\ (tp - 1) * limit > total
PaginationConsistent ==
  LET p == res.pagination
  IN /\ AskedRange((p.page - 1) * p.limit, (p.page - 1) * p.limit + p.limit - 1)
     /\ IsCeiling(p.totalPages, p.total, p.limit)

\* C12 as stated: page is 1 and limit is 10 when the parameter is absent or
\* is not a number; the store is asked for offset..offset+limit-1 and
\* totalPages is ceil(total / limit).
NonNumeric(s) == s \in {Undefined, "abc", "5abc"}

C12_PaginationDefaults ==
  ListAnswered =>
    /\ NonNumeric(req.query.page) => res.pagination.page = 1
    /\ NonNumeric(req.query.limit) => res.pagination.limit = 10
    /\ PaginationConsistent

\* C12 amended: page is 1 and limit is 10 when the parameter is absent, does
\* not start with an integer, or starts with the integer 0; otherwise the
\* integer the parameter starts with is used ("5abc" is 5); the range and
\* totalPages follow from the page and limit used.
ExpectedPage(s) ==
  CASE s \in {Undefined, "abc", "0", "1"} -> 1
    [] s = "5abc" -> 5
    [] s = "4" -> 4
    [] s = "-1" -> -1

ExpectedLimit(s) ==
  CASE s \in {Undefined, "abc", "0", "10"} -> 10
    [] s = "-5" -> -5

C12_PaginationAsParsed ==
  ListAnswered =>
    /\ res.pagination.page = ExpectedPage(req.query.page)
    /\ res.pagination.limit = ExpectedLimit(req.query.limit)
    /\ PaginationConsistent

C12_Witness ==
  /\ ListAnswered /\ req.query.page = "abc" /\ req.query.limit = Undefined
  /\ res.pagination = [page |-> 1, limit |-> 10, total |-> 25, totalPages |-> 3]
  /\ AskedRange(0, 9)

\* C13: with 25 matching records and limit 10, a list request the store
\* answers reports totalPages 3; page 1 carries 10 rows and page 4 is a 200
\* with no rows that still reports total 25 and totalPages 3.
C13_PageBeyondLast ==
  (ListAnswered /\ req.query.limit = "10" /\ res.pagination.total = 25) =>
    /\ res.pagination.totalPages = 3
    /\ req.query.page = "1" => res.rows = 10
    /\ req.query.page = "4" => (res.status = 200 /\ res.rows = 0)

C13_Witness ==
  /\ ListAnswered /\ req.query.limit = "10" /\ req.query.page = "4"
  /\ res.status = 200 /\ res.rows = 0
  /\ res.pagination = [page |-> 4, limit |-> 10, total |-> 25, totalPages |-> 3]

\* C14: the error handler answers with the status the failure carries, 500
\* when it carries none; at 500 the message sent is 'Internal server error',
\* at every other status it is the failure's own message.
C14_ErrorHandlerStatus ==
  (Finished /\ err.raised) =>
    /\ ~res.success /\ res.shape = "failure"
    /\ err.statusCode # 0 => res.status = err.statusCode
    /\ err.statusCode = 0 => res.status = 500
    /\ res.status = 500 => res.message = "Internal server error"
    /\ res.status # 500 => res.message = err.message

C14_Witness ==
  /\ Finished /\ err.raised /\ err.statusCode = 500
  /\ err.message # "Internal server error"
  /\ res.status = 500 /\ res.message = "Internal server error"

\* C15: a record-store error returned to a list, create, update or delete
\* handler ends the request with 500 and the generic message.
StoreErrorReturned ==
  \E i \in 1..Len(calls) :
    /\ calls[i].svc = "store" /\ calls[i].result = "error"
    /\ calls[i].op \in {"range", "insert", "update", "delete"}

C15_StoreErrorIs500 ==
  (Kind \in {"list", "create", "update", "delete", "activityCreate", "usersPatch",
             "usersDelete", "profilesCreate", "profilesPatch", "profilesDelete"}
     /\ Finished /\ StoreErrorReturned) =>
    (res.status = 500 /\ res.message = "Internal server error")

\* C16: every response sent under /api is the envelope: success = true on a
\* success body; success = false, error.message and timestamp on a failure.
C16_UniformEnvelope ==
  res.sent => \/ (res.shape = "success" /\ res.success)
              \/ (res.shape = "failure" /\ ~res.success)

\* C17: in one window at most RateLimitMax requests of an address are passed
\* on by the limiter; a request over the limit is answered 429 and is not
\* passed on, so no authentication and no store call runs for it; a step
\* that counts a request of one address leaves the other addresses'
\* counters alone, also with several requests waiting for their routes.
Min(x, y) == IF x < y THEN x ELSE y

LimiterWithinMax ==
  \A a \in Addresses :
    /\ limiter.passed[a] <= RateLimitMax
    /\ limiter.passed[a] = Min(limiter.hits[a], RateLimitMax)

LimiterStep ==
  \A a \in Addresses :
    /\ limiter'.hits[a] = limiter.hits[a] + 1 =>
         /\ IF limiter.hits[a] >= RateLimitMax
              THEN /\ res'.sent /\ res'.status = 429
                   /\ limiter'.passed = limiter.passed
                   /\ limiter'.waiting = limiter.waiting
              ELSE /\ ~res'.sent
                   /\ limiter'.passed[a] = limiter.passed[a] + 1
                   /\ limiter'.waiting[a] = limiter.waiting[a] + 1
         /\ calls' = calls /\ handlerRan' = handlerRan
    /\ limiter'.hits[a] # limiter.hits[a] =>
         \A b \in Addresses \ {a} :
           /\ limiter'.hits[b] = limiter.hits[b]
           /\ limiter'.passed[b] = limiter.passed[b]
           /\ limiter'.waiting[b] = limiter.waiting[b]

C17_RateLimit == []LimiterWithinMax /\ [][LimiterStep]_vars

C17_Witness ==
  /\ res.sent /\ res.status = 429
  /\ limiter.hits["10.0.0.1"] = RateLimitMax + 1
  /\ limiter.passed["10.0.0.1"] = RateLimitMax
  /\ limiter.waiting["10.0.0.1"] = MaxWaiting
  /\ limiter.hits["10.0.0.2"] = 1 /\ limiter.passed["10.0.0.2"] = 1

\* C18: no write of a profile role outside {admin, staff} or of a language
\* outside {en, es} is issued to the record store or the identity service.
IsProfileWrite(call) ==
  \/ (call.svc = "store" /\ call.table = "profiles" /\ call.op \in {"insert", "update"})
  \/ (call.svc = "identity" /\ call.op \in {"signUp", "updateUserById"})

C18_EnumsGuardedByApi ==
  \A i \in 1..Len(calls) :
    IsProfileWrite(calls[i]) =>
      /\ calls[i].role \in ProfileRoleEnum \cup {Undefined}
      /\ calls[i].language \in LanguageEnum \cup {Undefined}

\* The state the PATCH that just succeeded would leave if it were issued
\* once more, by the next request.
PatchSucceeded ==
  /\ Kind \in {"update", "usersPatch", "profilesPatch"}
  /\ Finished /\ res.success
AfterSecondPatch ==
  LET b == req.body
      t == RouteTable[req.route].table
      lowered == IF b.role = Undefined THEN Undefined ELSE ToLowerCase(b.role)
  IN CASE Kind = "update" ->
            [row |-> PatchedRow(t, records[t][req.id], b, Now + 1), account |-> NoAccount]
       [] Kind = "profilesPatch" ->
            [row |-> PatchedProfile(profiles[req.id], lowered, b.language, Now + 1),
             account |-> NoAccount]
       [] Kind = "usersPatch" ->
            [row |-> PatchedProfile(profiles[req.id], b.role, b.language, Now + 1),
             account |-> IF TouchesMetadata(b)
                           THEN PatchedAccount(accounts[req.id], b.role, b.language)
                           ELSE accounts[req.id]]
AfterFirstPatch ==
  CASE Kind = "update" ->
         [row |-> records[RouteTable[req.route].table][req.id], account |-> NoAccount]
    [] Kind = "profilesPatch" -> [row |-> profiles[req.id], account |-> NoAccount]
    [] Kind = "usersPatch" -> [row |-> profiles[req.id], account |-> accounts[req.id]]
WithoutTimestamp(state) == [state EXCEPT !.row.updated_at = 0]

MetadataSettled ==
  (Kind = "usersPatch" /\ TouchesMetadata(req.body)) =>
    \E i \in 1..Len(calls) :
      calls[i].svc = "identity" /\ calls[i].op = "updateUserById" /\ calls[i].result = "ok"

ActivityLogStep ==
  \A i \in RowIds :
    LET old == records["activity_log"][i]
        new == records'["activity_log"][i]
    IN /\ (old.exists /\ new # old) =>
            /\ new = NoRow
            /\ req.route = "DELETE /api/activity-log/:id" /\ req.id = i
            /\ IsAdminCaseInsensitive(req.user)
       /\ (~old.exists /\ new.exists) =>
            (req.route = "POST /api/activity-log" /\ req.user.present)

C20_ActivityLogAppendOnly == [][ActivityLogStep]_vars

C20_Witness ==
  /\ Finished /\ req.route = "POST /api/activity-log"
  /\ req.user.present /\ ~IsAdminCaseInsensitive(req.user)
  /\ records["activity_log"][NewRecordId].exists
  /\ records["activity_log"][1] = InitialRow("activity_log")

\* C21: when an external call a handler made (record store or identity
\* service) returned an error, the request ends with a failure response; no
\* request answers success after such a call failed.
HandlerCallFailed ==
  \E i \in 1..Len(calls) :
    calls[i].op # "getUser" /\ calls[i].result \in {"error", "throw"}

C21_NoSwallowedFailure ==
  (HandlerCallFailed /\ Finished) =>
    (~res.success /\ res.status >= 400)

\* ------------------------------------- session routes, several principals
\* Number of requests to the session routes in one behaviour.
MaxSessionRequests == 2

SessionRoutes ==
  { "POST /api/auth/login", "POST /api/auth/logout", "POST /api/auth/refresh",
    "POST /api/auth/update-password" }
\* The Authorization headers of these requests: none, or the token of an
\* existing account.
SessionHeaders ==
  { h \in Headers : ~h.present \/ (h.prefix = "Bearer " /\ h.rest \in ExistingIds) }

\* A client sends a request to one of the session routes.
NewSessionRequest(route, hdr, body) ==
  /\ pc = "idle"
  /\ nreq < MaxSessionRequests
  /\ nreq' = nreq + 1
  /\ req' = [NoRequest EXCEPT !.route = route, !.hdr = hdr, !.body = body]
  /\ pc' = StageAfter(route, "start")
  /\ err' = NoErr
  /\ res' = NoRes
  /\ calls' = <<>>
  /\ handlerRan' = FALSE
  /\ UNCHANGED <<limiter, records, accounts, profiles, adminConfigured, clientSession>>

SessionNext ==
  \/ \E route \in SessionRoutes, hdr \in SessionHeaders :
       \E body \in Bodies(route) : NewSessionRequest(route, hdr, body)
  \/ Authenticate
  \/ Validate
  \/ HandleLogin
  \/ HandleLogout
  \/ HandleRefresh
  \/ HandleUpdatePassword
  \/ ErrorHandler
  \/ EndRequest

SessionSpec == Init /\ [][SessionNext]_vars

\* C22: a request of one principal is not affected by the requests other
\* principals made before it: the updateUser call of update-password acts on
\* no session, as when the request runs alone, or on the caller's own, never
\* on the session an earlier request of another principal left in the client.
C22_RequestsIndependent ==
  \A i \in 1..Len(calls) :
    calls[i].op = "updateUser" => calls[i].target \in {NoSession, req.user.id}

\* C28: a step of update-password changes the password of the principal the
\* bearer token identifies and of no other account, and a step of logout that
\* ends a session ends the caller's.
OwnPasswordOwnSession ==
  /\ \A i \in Ids :
       (Kind = "updatePassword" /\ accounts'[i].password # accounts[i].password) =>
         i = req.user.id
  /\ (Kind = "logout" /\ clientSession' # clientSession) =>
       clientSession = req.user.id

C28_OwnPasswordOwnSession == [][OwnPasswordOwnSession]_vars

\* C23: for an authenticated principal the stages come in the order
\* validation, authorization, store call, and the first failing one decides
\* the response: a request that violates a validation rule ends with 400,
\* also when the principal is not authorized; one that violates none and is
\* refused by requireAdmin ends with 403.
C23_ValidationBeforeAuthorization ==
  (Guarded /\ req.user.present /\ Finished /\ HasValidators(req.route)) =>
    IF ViolatesRule
      THEN res.status = 400
      ELSE (AdminGated /\ ~PassesAdminGate(req.user)) => res.status = 403

\* C24: the page and the limit a list request uses are positive, the offset
\* it asks the store for is not negative, and the totalPages it reports is
\* not negative, whatever the query parameters are.
C24_PositivePaging ==
  /\ \A i \in 1..Len(calls) : calls[i].op = "range" => calls[i].from >= 0
  /\ ListAnswered =>
       /\ res.pagination.page > 0
       /\ res.pagination.limit > 0
       /\ res.pagination.totalPages >= 0

\* C25: after a completed signup request the account it created exists iff
\* its profile exists.
C25_SignupTransactional ==
  (Kind = "signup" /\ Finished) =>
    (accounts[FreshId].exists <=> profiles[FreshId].exists)

\* C26: the validation step of a request that violates a rule leaves the
\* request body as the client sent it.
ValidationKeepsBody ==
  (pc = "validate" /\ Violations(req.route, req.id, req.body) # {}) =>
    req'.body = req.body

C26_ValidationNeverMutates == [][ValidationKeepsBody]_vars

\* C27: a step in which the role of an account's metadata or of a profile
\* becomes admin belongs to a request of an admin principal.
BecomesAdmin(i) ==
  \/ (ToLowerCase(accounts'[i].role) = "admin" /\ ToLowerCase(accounts[i].role) # "admin")
  \/ (profiles'[i].role = "admin" /\ profiles[i].role # "admin")

NoEscalation ==
  \A i \in Ids : BecomesAdmin(i) => IsAdminCaseInsensitive(req.user)

C27_NoPrivilegeEscalation == [][NoEscalation]_vars

\* C29: after a PATCH /api/users/:id that answered success the account
\* metadata and the profile both carry every field the payload set; a step of
\* the handler that raises a failure changes neither.
UsersPatchAgrees ==
  (Kind = "usersPatch" /\ Finished /\ res.success) =>
    /\ req.body.role # Undefined =>
         (accounts[req.id].role = req.body.role /\ profiles[req.id].role = req.body.role)
    /\ req.body.language # Undefined =>
         (accounts[req.id].language = req.body.language
            /\ profiles[req.id].language = req.body.language)

UsersPatchAllOrNothing ==
  (Kind = "usersPatch" /\ pc = "handler" /\ err'.raised) =>
    (accounts' = accounts /\ profiles' = profiles)

C29_UsersPatchNotPartial == []UsersPatchAgrees /\ [][UsersPatchAllOrNothing]_vars

\* C30: the entry POST /api/activity-log inserts carries the id of the
\* principal that issued the request as user_id.
C30_ActivityLogOwnUserId ==
  Kind = "activityCreate" =>
    \A i \in 1..Len(calls) :
      (calls[i].svc = "store" /\ calls[i].op = "insert") => calls[i].target = req.user.id
====
